---------------------------- MODULE Spec2Model ----------------------------
(***************************************************************************)
(* Model of packages/core/src/controllers/publisher.ts: the Publisher      *)
(* (outbound queue with heartbeat resubmission), the JsonRpcHistory        *)
(* (request/response ledger behind an init gate) and the Expirer           *)
(* (topic expirations swept on every heartbeat pulse).                     *)
(*                                                                         *)
(* JavaScript runs every synchronous stretch of code to completion; a      *)
(* handler is cut into one action per stretch between two awaits.          *)
(***************************************************************************)
EXTENDS Integers, Sequences, FiniteSets, Bags, TLC

VARIABLES
    queue,      \* Publisher.queue : Map<hash, PublisherTypes.Params>
    calls,      \* the publish() calls made so far, each with its position
    retries,    \* bag of transport requests issued by checkQueue, in flight
    failures,   \* number of transport requests that have failed so far
    records,    \* JsonRpcHistory.records : Map<id, JsonRpcRecord>
    cached,     \* JsonRpcHistory.cached  : JsonRpcRecord[]
    store,      \* durable store value under JsonRpcHistory.storageKey
    writes,     \* bag of snapshots handed to storage.setItem, not yet written
    reads,      \* init calls whose storage.getItem has not settled
    nops,       \* number of History calls made so far
    mq,         \* microtask queue: continuations ready to run, in FIFO order
    waiters,    \* once(init) listeners registered by isInitialized, in order
    emitted,    \* events emitted by the last step, in order
    returned,   \* the History call that returned or threw in the last step
    inits,      \* number of init events JsonRpcHistory has emitted
    expirations,    \* Expirer.expirations : Map<topic, Expiration>
    expirerCached,  \* Expirer.cached : Expiration[]
    initialized,    \* Expirer.initialized
    listeners,      \* times Expirer.registerEventListeners has run
    expirerStore,   \* durable store value under Expirer.storageKey
    expirerWrites,  \* bag of snapshots handed to storage.setItem, not yet written
    expirerReads,   \* Expirer.init calls whose storage.getItem has not settled
    now,            \* Date.now(), in milliseconds
    emq,            \* microtask queue of the Expirer's continuations
    eops,           \* number of Expirer calls made so far
    eemitted,       \* Expirer events emitted by the last step, in order
    ereturned       \* the Expirer call or pulse handler that ended in the last step

pvars == <<queue, calls, retries, failures>>
hvars == <<records, cached, store, writes, reads, nops, mq, waiters, emitted,
           returned, inits>>
evars == <<expirations, expirerCached, initialized, listeners, expirerStore,
           expirerWrites, expirerReads, now, emq, eops, eemitted, ereturned>>
vars  == <<queue, calls, retries, failures, records, cached, store, writes,
           reads, nops, mq, waiters, emitted, returned, inits, expirations,
           expirerCached, initialized, listeners, expirerStore, expirerWrites,
           expirerReads, now, emq, eops, eemitted, ereturned>>

(***************************************************************************)
(* Bounds of the model.                                                    *)
(***************************************************************************)
MaxCalls    == 2    \* publish() calls in one behaviour
MaxFailures == 2    \* transport requests that fail in one behaviour
MaxInFlight == 2    \* resubmissions in flight at once
MaxOps      == 3    \* History calls in one behaviour
MaxEOps     == 3    \* Expirer calls in one behaviour
MaxTicks    == 2    \* seconds the clock advances in one behaviour

(***************************************************************************)
(* Publisher                                                               *)
(***************************************************************************)
Topics   == {"topicA", "topicB"}
Messages == {"msg1", "msg2"}
Hashes   == {"hash1", "hash2"}

\* opts as the caller passes them: ttl and prompt may be left out.
OptsArgs == {[ttl |-> "undefined", prompt |-> "undefined"],
             [ttl |-> "ttl1", prompt |-> "true"]}

PUBLISHER_DEFAULT_TTL == "PUBLISHER_DEFAULT_TTL"
DefaultRelay          == [protocol |-> "waku"]

\* hashMessage: a digest of the message alone (the topic is not hashed).
hashMessage(message) ==
    CASE message = "msg1" -> "hash1"
      [] message = "msg2" -> "hash2"

getRelayProtocolName(opts) == DefaultRelay

\* publish, lines 31-34: the entry stored in the queue.
PublishParams(topic, message, opts) ==
    [topic   |-> topic,
     message |-> message,
     opts    |-> [ttl    |-> IF opts.ttl = "undefined"
                               THEN PUBLISHER_DEFAULT_TTL ELSE opts.ttl,
                  relay  |-> getRelayProtocolName(opts),
                  prompt |-> IF opts.prompt = "undefined"
                               THEN "false" ELSE opts.prompt]]

\* rpcPublish: the request handed to relayer.provider.request; an undefined
\* prompt is deleted from the params.
rpcPublish(topic, message, ttl, relay, prompt) ==
    [method |-> relay.protocol \o "_publish",
     params |-> [topic   |-> topic,
                 message |-> message,
                 ttl     |-> ttl,
                 prompt  |-> IF prompt = "undefined" THEN "omitted" ELSE prompt]]

\* Map.set and Map.delete on a map held as a function.
MapSet(map, key, value) ==
    [k \in DOMAIN map \cup {key} |-> IF k = key THEN value ELSE map[k]]

MapDelete(map, key) ==
    [k \in DOMAIN map \ {key} |-> map[k]]

\* onPublish that forgets to delete the entry.
onPublish_keep(q, hash) == q

\* onPublish(hash, params): the queue after the call.
onPublish(q, hash) == MapDelete(q, hash)

\* A publish call sits between queue.set and rpcPublish: nothing else runs.
PublisherBusy == \E i \in DOMAIN calls : calls[i].status = "set"

\* Acknowledging a request for (topic, message) marks every call of that
\* topic and message whose request has been submitted.
MarkAcked(cs, topic, message) ==
    [i \in DOMAIN cs |->
        IF /\ cs[i].topic = topic
           /\ cs[i].message = message
           /\ cs[i].status # "set"
        THEN [cs[i] EXCEPT !.acked = TRUE]
        ELSE cs[i]]

\* publish, lines 31-36: compute params and hash, queue.set(hash, params).
PublishSet(topic, message, opts) ==
    /\ ~PublisherBusy
    /\ Len(calls) < MaxCalls
    /\ LET params == PublishParams(topic, message, opts)
           hash   == hashMessage(message)
       IN  /\ queue' = MapSet(queue, hash, params)
           /\ calls' = Append(calls, [topic   |-> topic,
                                      message |-> message,
                                      args    |-> opts,
                                      params  |-> params,
                                      hash    |-> hash,
                                      status  |-> "set",
                                      request |-> "none",
                                      acked   |-> FALSE])
    /\ UNCHANGED <<retries, failures>>
    /\ UNCHANGED <<hvars, evars>>

\* publish, line 37: rpcPublish(topic, message, ttl, relay, prompt) is issued
\* and the call suspends on its promise.
PublishSubmit(i) ==
    /\ i \in DOMAIN calls
    /\ calls[i].status = "set"
    /\ LET p == calls[i].params
       IN  calls' = [calls EXCEPT
                       ![i].status  = "awaiting",
                       ![i].request = rpcPublish(p.topic, p.message, p.opts.ttl,
                                                 p.opts.relay, p.opts.prompt)]
    /\ UNCHANGED <<queue, retries, failures>>
    /\ UNCHANGED <<hvars, evars>>

\* publish, lines 38-40: the request succeeded; onPublish, then return.
PublishAck(i) ==
    /\ ~PublisherBusy
    /\ i \in DOMAIN calls
    /\ calls[i].status = "awaiting"
    /\ queue' = onPublish(queue, calls[i].hash)
    /\ calls' = MarkAcked([calls EXCEPT ![i].status = "returned"],
                          calls[i].request.params.topic,
                          calls[i].request.params.message)
    /\ UNCHANGED <<retries, failures>>
    /\ UNCHANGED <<hvars, evars>>

\* publish whose catch block rolls the queue back before rethrowing.
PublishFail_rollback(i) ==
    /\ ~PublisherBusy
    /\ i \in DOMAIN calls
    /\ calls[i].status = "awaiting"
    /\ failures < MaxFailures
    /\ failures' = failures + 1
    /\ calls' = [calls EXCEPT ![i].status = "threw"]
    /\ queue' = MapDelete(queue, calls[i].hash)
    /\ UNCHANGED retries
    /\ UNCHANGED <<hvars, evars>>

\* publish, lines 41-45: the request failed; log and rethrow.
PublishFail(i) ==
    /\ ~PublisherBusy
    /\ i \in DOMAIN calls
    /\ calls[i].status = "awaiting"
    /\ failures < MaxFailures
    /\ failures' = failures + 1
    /\ calls' = [calls EXCEPT ![i].status = "threw"]
    /\ UNCHANGED <<queue, retries>>
    /\ UNCHANGED <<hvars, evars>>

\* checkQueue, lines 96-103: one callback per entry, each run up to its await.
\* The resubmission does not pass prompt.
RetryOf(params) ==
    [hash    |-> hashMessage(params.message),
     request |-> rpcPublish(params.topic, params.message, params.opts.ttl,
                            params.opts.relay, "undefined")]

checkQueue ==
    SetToBag({RetryOf(queue[h]) : h \in DOMAIN queue})

\* registerEventListeners, lines 108-112: a heartbeat pulse runs checkQueue.
Pulse ==
    /\ ~PublisherBusy
    /\ queue # << >>
    /\ BagCardinality(retries) + Cardinality(DOMAIN queue) <= MaxInFlight
    /\ retries' = retries (+) checkQueue
    /\ UNCHANGED <<queue, calls, failures>>
    /\ UNCHANGED <<hvars, evars>>

\* checkQueue, line 104: a resubmission succeeded; onPublish(hash, params).
RetryAck(r) ==
    /\ ~PublisherBusy
    /\ BagIn(r, retries)
    /\ retries' = retries (-) SetToBag({r})
    /\ queue' = onPublish(queue, r.hash)
    /\ calls' = MarkAcked(calls, r.request.params.topic, r.request.params.message)
    /\ UNCHANGED failures
    /\ UNCHANGED <<hvars, evars>>

\* checkQueue that gives an entry up when its resubmission fails.
RetryFail_drop(r) ==
    /\ ~PublisherBusy
    /\ BagIn(r, retries)
    /\ failures < MaxFailures
    /\ failures' = failures + 1
    /\ retries' = retries (-) SetToBag({r})
    /\ queue' = MapDelete(queue, r.hash)
    /\ UNCHANGED calls
    /\ UNCHANGED <<hvars, evars>>

\* checkQueue, line 103: a resubmission failed; the callback's promise rejects
\* and nobody handles it.
RetryFail(r) ==
    /\ ~PublisherBusy
    /\ BagIn(r, retries)
    /\ failures < MaxFailures
    /\ failures' = failures + 1
    /\ retries' = retries (-) SetToBag({r})
    /\ UNCHANGED <<queue, calls>>
    /\ UNCHANGED <<hvars, evars>>

(***************************************************************************)
(* JsonRpcHistory                                                          *)
(*                                                                         *)
(* records is the Map in insertion order; a JsonRpcRecord is an object,    *)
(* held by reference: its field oid is the identity of the object (the     *)
(* number of the call that created it), and an assignment to a field of    *)
(* an object is seen through every reference to it.                        *)
(***************************************************************************)
Ids == {7, 8}

\* The id that resolve, get, exists and delete are called with; 8 is the id
\* of the other record.
AskedIds == {7}

\* The arguments of set: params and chainId may be left out. A call on
\* topicA and a call on topicB differ in method, params and chainId too.
SetArgs ==
    {[topic   |-> "topicA",
      request |-> [id |-> i, method |-> "wc_a", params |-> "undefined"],
      chainId |-> "undefined"] : i \in Ids} \cup
    {[topic   |-> "topicB",
      request |-> [id |-> i, method |-> "wc_b", params |-> "p1"],
      chainId |-> "chain1"] : i \in Ids}

\* The response argument of resolve: a JSON-RPC result or a JSON-RPC error.
ResolveArgs ==
    {[id |-> i, result |-> "r1"] : i \in AskedIds} \cup
    {[id |-> i, error |-> "e1"] : i \in AskedIds}

GetArgs == [topic : Topics, id : AskedIds]

\* delete(topic, id?): id may be left out.
DeleteArgs == [topic : Topics] \cup [topic : Topics, id : AskedIds]

\* What the durable store can hold when the process starts.
StoredAtStart ==
    {<< >>,
     <<[id |-> 7, topic |-> "topicA",
        request |-> [method |-> "wc_a", params |-> "null"],
        chainId |-> "undefined"]>>}

isJsonRpcError(response) == "error" \in DOMAIN response

\* records.has(id), records.get(id), records.set(id, record), records.delete(id)
RecordsHas(recs, id) == \E k \in 1..Len(recs) : recs[k].id = id

RecordsGet(recs, id) == recs[CHOOSE k \in 1..Len(recs) : recs[k].id = id]

RecordsSet(recs, record) ==
    IF RecordsHas(recs, record.id)
    THEN [k \in 1..Len(recs) |-> IF recs[k].id = record.id THEN record ELSE recs[k]]
    ELSE Append(recs, record)

RecordsDelete(recs, id) == SelectSeq(recs, LAMBDA r : r.id # id)

\* The record without the identity of its object: what is stored and compared.
Content(record) == [f \in DOMAIN record \ {"oid"} |-> record[f]]

\* this.values as handed to storage.setItem.
Snapshot(recs) == [k \in 1..Len(recs) |-> Content(recs[k])]

\* The records read from storage, as objects created by call n.
Parsed(persisted, n) ==
    [k \in 1..Len(persisted) |->
        [f \in DOMAIN persisted[k] \cup {"oid"} |->
            IF f = "oid" THEN n ELSE persisted[k][f]]]

\* set, lines 187-192: the record built from the arguments.
NewRecord(args, n) ==
    [id      |-> args.request.id,
     topic   |-> args.topic,
     request |-> [method |-> args.request.method,
                  params |-> IF args.request.params = "undefined"
                               THEN "null" ELSE args.request.params],
     chainId |-> args.chainId,
     oid     |-> n]

\* resolve, lines 204-206: record.response = {error} or {result}.
WithResponse(record, response) ==
    [f \in DOMAIN record \cup {"response"} |->
        IF f = "response"
        THEN IF isJsonRpcError(response)
             THEN [error |-> response.error]
             ELSE [result |-> response.result]
        ELSE record[f]]

HasResponse(record) == "response" \in DOMAIN record

SameObject(a, b) == a.id = b.id /\ a.oid = b.oid

\* formatJsonRpcRequest(method, params, id), called on line 174.
formatJsonRpcRequest(method, params, id) ==
    [id |-> id, jsonrpc |-> "2.0", method |-> method, params |-> params]

\* get pending, lines 168-180: one RequestEvent per record without response,
\* in the order of this.values.
pending(recs) ==
    LET noResponse == SelectSeq(recs, LAMBDA r : ~HasResponse(r))
    IN  [k \in 1..Len(noResponse) |->
            [topic   |-> noResponse[k].topic,
             request |-> formatJsonRpcRequest(noResponse[k].request.method,
                                              noResponse[k].request.params,
                                              noResponse[k].id),
             chainId |-> noResponse[k].chainId]]

\* An assignment to a record object, seen by the continuations that hold it.
Seen(conts, record) ==
    [k \in 1..Len(conts) |->
        IF "rec" \in DOMAIN conts[k] /\ SameObject(conts[k].rec, record)
        THEN [conts[k] EXCEPT !.rec = record]
        ELSE conts[k]]

\* await this.isInitialized(), lines 331-336: with nothing cached the
\* continuation c is queued at once. Otherwise isInitialized registers a
\* once(init) listener and returns a new promise: the job by which the async
\* function's own promise adopts it is queued now (hops = 2), and c waits
\* for the init event.
AwaitInitialized(q, w, c) ==
    IF Len(cached) = 0
    THEN [mq |-> Append(q, c), waiters |-> w]
    ELSE [mq |-> Append(q, [c EXCEPT !.hops = 2]),
          waiters |-> Append(w, [c EXCEPT !.hops = 2])]

\* The init event runs the once(init) listeners, which resolve the promises
\* isInitialized returned. For a promise already adopted (hops = 1) the job
\* that settles the async function's promise is queued; the awaiting code is
\* queued one turn after it. A promise not adopted yet is passed on by its
\* adoption job, which is still in the queue.
Released(w) == SelectSeq(w, LAMBDA c : c.hops = 1)

\* events.emit(created | updated | deleted) runs persist: setItem(this.values).
Persisted(ws, recs) == ws (+) SetToBag({Snapshot(recs)})

Event(name, record) == [name |-> name, record |-> Content(record)]

Done(c, result) == <<[kind |-> c.kind, args |-> c.args, result |-> result]>>

Void == [outcome |-> "void"]
Threw(error) == [outcome |-> "error", error |-> error]

\* A call of a public operation: it runs up to await this.isInitialized().
HCall(kind, args) ==
    /\ nops < MaxOps
    /\ nops' = nops + 1
    /\ LET c == [n |-> nops + 1, kind |-> kind, args |-> args,
                 pc |-> "body", hops |-> 0]
           a == AwaitInitialized(mq, waiters, c)
       IN  /\ mq' = a.mq
           /\ waiters' = a.waiters
    /\ emitted' = << >>
    /\ returned' = << >>
    /\ UNCHANGED <<records, cached, store, writes, reads>>
    /\ UNCHANGED <<pvars, evars, inits>>

HSetCall(args)     == HCall("set", args)
HResolveCall(args) == HCall("resolve", args)
HGetCall(args)     == HCall("get", args)
HDeleteCall(args)  == HCall("delete", args)
HExistsCall(args)  == HCall("exists", args)

\* The continuation at the head of the microtask queue.
Running(kind, pc) ==
    /\ mq # << >>
    /\ Head(mq).kind = kind
    /\ Head(mq).pc = pc
    /\ Head(mq).hops = 0

\* The adoption job of a promise isInitialized returned (line 333): while the
\* promise is pending the job subscribes to it; when the init event has
\* resolved it already, the job that passes the result on is queued.
HAdopt ==
    /\ mq # << >>
    /\ Head(mq).hops = 2
    /\ IF \E k \in 1..Len(waiters) : waiters[k].n = Head(mq).n
       THEN /\ mq' = Tail(mq)
            /\ waiters' = [k \in 1..Len(waiters) |->
                              IF waiters[k].n = Head(mq).n
                              THEN [waiters[k] EXCEPT !.hops = 1]
                              ELSE waiters[k]]
       ELSE /\ mq' = Append(Tail(mq), [Head(mq) EXCEPT !.hops = 1])
            /\ UNCHANGED waiters
    /\ emitted' = << >>
    /\ returned' = << >>
    /\ UNCHANGED <<records, cached, store, writes, reads, nops>>
    /\ UNCHANGED <<pvars, evars, inits>>

\* A microtask turn that only passes a settled promise on.
HHop ==
    /\ mq # << >>
    /\ Head(mq).hops = 1
    /\ mq' = Append(Tail(mq), [Head(mq) EXCEPT !.hops = 0])
    /\ emitted' = << >>
    /\ returned' = << >>
    /\ UNCHANGED <<records, cached, store, writes, reads, nops, waiters>>
    /\ UNCHANGED <<pvars, evars, inits>>

\* set without the records.has guard: a second set overwrites the record.
HSet_overwrite ==
    /\ Running("set", "body")
    /\ LET c == Head(mq)
           record == NewRecord(c.args, c.n)
       IN  /\ mq' = Tail(mq)
           /\ returned' = Done(c, Void)
           /\ records' = RecordsSet(records, record)
           /\ emitted' = <<Event("created", record)>>
           /\ writes' = Persisted(writes, records')
    /\ UNCHANGED <<cached, store, reads, nops, waiters>>
    /\ UNCHANGED <<pvars, evars, inits>>

\* set, lines 184-194.
HSet ==
    /\ Running("set", "body")
    /\ LET c == Head(mq)
           record == NewRecord(c.args, c.n)
       IN  /\ mq' = Tail(mq)
           /\ returned' = Done(c, Void)
           /\ IF RecordsHas(records, c.args.request.id)
              THEN /\ emitted' = << >>
                   /\ UNCHANGED <<records, writes>>
              ELSE /\ records' = RecordsSet(records, record)
                   /\ emitted' = <<Event("created", record)>>
                   /\ writes' = Persisted(writes, records')
    /\ UNCHANGED <<cached, store, reads, nops, waiters>>
    /\ UNCHANGED <<pvars, evars, inits>>

\* getRecord is called (resolve line 202, get line 215, exists line 244) and
\* runs up to its own await this.isInitialized() (line 276).
CallGetRecord(c) ==
    LET a == AwaitInitialized(Tail(mq), waiters, [c EXCEPT !.pc = "getRecord"])
    IN  /\ mq' = a.mq
        /\ waiters' = a.waiters

\* resolve, lines 199-202.
HResolve ==
    /\ Running("resolve", "body")
    /\ LET c == Head(mq)
       IN  IF ~RecordsHas(records, c.args.id)
           THEN /\ mq' = Tail(mq)
                /\ returned' = Done(c, Void)
                /\ UNCHANGED waiters
           ELSE /\ CallGetRecord(c)
                /\ returned' = << >>
    /\ emitted' = << >>
    /\ UNCHANGED <<records, cached, store, writes, reads, nops>>
    /\ UNCHANGED <<pvars, evars, inits>>

\* get, lines 213-215.
HGet ==
    /\ Running("get", "body")
    /\ CallGetRecord(Head(mq))
    /\ emitted' = << >>
    /\ returned' = << >>
    /\ UNCHANGED <<records, cached, store, writes, reads, nops>>
    /\ UNCHANGED <<pvars, evars, inits>>

\* exists, lines 243-244.
HExists ==
    /\ Running("exists", "body")
    /\ LET c == Head(mq)
       IN  IF ~RecordsHas(records, c.args.id)
           THEN /\ mq' = Tail(mq)
                /\ returned' = Done(c, [outcome |-> "bool", bool |-> FALSE])
                /\ UNCHANGED waiters
           ELSE /\ CallGetRecord(c)
                /\ returned' = << >>
    /\ emitted' = << >>
    /\ UNCHANGED <<records, cached, store, writes, reads, nops>>
    /\ UNCHANGED <<pvars, evars, inits>>

\* getRecord, lines 277-287: its promise is rejected with NO_MATCHING_ID or
\* fulfilled with the record; the awaiting caller goes on one turn later.
HGetRecord ==
    /\ mq # << >>
    /\ Head(mq).pc = "getRecord"
    /\ Head(mq).hops = 0
    /\ LET c == Head(mq)
       IN  IF ~RecordsHas(records, c.args.id)
           THEN mq' = Append(Tail(mq), [c EXCEPT !.pc = "threw"])
           ELSE mq' = Append(Tail(mq),
                             [n |-> c.n, kind |-> c.kind, args |-> c.args,
                              pc |-> "record", hops |-> 0,
                              rec |-> RecordsGet(records, c.args.id)])
    /\ emitted' = << >>
    /\ returned' = << >>
    /\ UNCHANGED <<records, cached, store, writes, reads, nops, waiters>>
    /\ UNCHANGED <<pvars, evars, inits>>

\* await this.getRecord(id) throws (resolve line 202, get line 215, exists
\* line 244): the caller has no handler and its promise is rejected.
HGetRecordThrew ==
    /\ mq # << >>
    /\ Head(mq).pc = "threw"
    /\ Head(mq).hops = 0
    /\ mq' = Tail(mq)
    /\ returned' = Done(Head(mq), Threw("NO_MATCHING_ID"))
    /\ emitted' = << >>
    /\ UNCHANGED <<records, cached, store, writes, reads, nops, waiters>>
    /\ UNCHANGED <<pvars, evars, inits>>

\* resolve without the check of line 203: a second response is stored.
HResolved_again ==
    /\ Running("resolve", "record")
    /\ LET c == Head(mq)
           record == WithResponse(c.rec, c.args)
       IN  /\ returned' = Done(c, Void)
           /\ records' = RecordsSet(records, record)
           /\ mq' = Seen(Tail(mq), record)
           /\ waiters' = Seen(waiters, record)
           /\ emitted' = <<Event("updated", record)>>
           /\ writes' = Persisted(writes, records')
    /\ UNCHANGED <<cached, store, reads, nops>>
    /\ UNCHANGED <<pvars, evars, inits>>

\* resolve, lines 203-208.
HResolved ==
    /\ Running("resolve", "record")
    /\ LET c == Head(mq)
           record == WithResponse(c.rec, c.args)
       IN  /\ returned' = Done(c, Void)
           /\ IF HasResponse(c.rec)
              THEN /\ mq' = Tail(mq)
                   /\ emitted' = << >>
                   /\ UNCHANGED <<records, writes, waiters>>
              ELSE /\ records' = RecordsSet(records, record)
                   /\ mq' = Seen(Tail(mq), record)
                   /\ waiters' = Seen(waiters, record)
                   /\ emitted' = <<Event("updated", record)>>
                   /\ writes' = Persisted(writes, records')
    /\ UNCHANGED <<cached, store, reads, nops>>
    /\ UNCHANGED <<pvars, evars, inits>>

\* get without the topic check of line 216.
HGot_anyTopic ==
    /\ Running("get", "record")
    /\ LET c == Head(mq)
       IN  /\ mq' = Tail(mq)
           /\ returned' = Done(c, [outcome |-> "record", record |-> Content(c.rec)])
    /\ emitted' = << >>
    /\ UNCHANGED <<records, cached, store, writes, reads, nops, waiters>>
    /\ UNCHANGED <<pvars, evars, inits>>

\* get, lines 216-225.
HGot ==
    /\ Running("get", "record")
    /\ LET c == Head(mq)
       IN  /\ mq' = Tail(mq)
           /\ returned' = Done(c, IF c.rec.topic # c.args.topic
                                  THEN Threw("MISMATCHED_TOPIC")
                                  ELSE [outcome |-> "record",
                                        record |-> Content(c.rec)])
    /\ emitted' = << >>
    /\ UNCHANGED <<records, cached, store, writes, reads, nops, waiters>>
    /\ UNCHANGED <<pvars, evars, inits>>

\* exists, line 245.
HExisted ==
    /\ Running("exists", "record")
    /\ LET c == Head(mq)
       IN  /\ mq' = Tail(mq)
           /\ returned' = Done(c, [outcome |-> "bool",
                                   bool |-> (c.rec.topic = c.args.topic)])
    /\ emitted' = << >>
    /\ UNCHANGED <<records, cached, store, writes, reads, nops, waiters>>
    /\ UNCHANGED <<pvars, evars, inits>>

\* The test of the loop without line 234: the id argument is ignored.
Deleted_anyId(record, args) == record.topic = args.topic

\* delete, lines 233-234: the record is one to delete.
Deleted(record, args) ==
    /\ record.topic = args.topic
    /\ ~("id" \in DOMAIN args /\ record.id # args.id)

\* delete, lines 232-238: the loop over this.values from position k on; every
\* deleted event runs persist with the records of that moment.
RECURSIVE DeleteLoop(_, _, _, _)
DeleteLoop(values, k, args, acc) ==
    IF k > Len(values) THEN acc
    ELSE LET record == values[k]
         IN  IF Deleted(record, args)
             THEN LET recs == RecordsDelete(acc.records, record.id)
                  IN  DeleteLoop(values, k + 1, args,
                                 [records |-> recs,
                                  emitted |-> Append(acc.emitted, Event("deleted", record)),
                                  writes  |-> Persisted(acc.writes, recs)])
             ELSE DeleteLoop(values, k + 1, args, acc)

\* delete, lines 230-238.
HDelete ==
    /\ Running("delete", "body")
    /\ LET c == Head(mq)
           r == DeleteLoop(records, 1, c.args,
                           [records |-> records, emitted |-> << >>, writes |-> writes])
       IN  /\ records' = r.records
           /\ emitted' = r.emitted
           /\ writes' = r.writes
           /\ returned' = Done(c, Void)
    /\ mq' = Tail(mq)
    /\ UNCHANGED <<cached, store, reads, nops, waiters>>
    /\ UNCHANGED <<pvars, evars, inits>>

\* init, lines 143-145, initialize, restore and getJsonRpcRecords up to
\* storage.getItem (line 271).
HInitCall ==
    /\ nops < MaxOps
    /\ nops' = nops + 1
    /\ reads' = reads \cup {nops + 1}
    /\ emitted' = << >>
    /\ returned' = << >>
    /\ UNCHANGED <<records, cached, store, writes, mq, waiters>>
    /\ UNCHANGED <<pvars, evars, inits>>

\* storage.getItem settles: with the stored records, or with an error.
StorageRead(n, failed) ==
    /\ n \in reads
    /\ reads' = reads \ {n}
    /\ mq' = Append(mq, [n |-> n, kind |-> "init", args |-> << >>,
                         pc |-> "getJsonRpcRecords", hops |-> 0,
                         failed |-> failed,
                         persisted |-> IF failed THEN << >> ELSE store])
    /\ emitted' = << >>
    /\ returned' = << >>
    /\ UNCHANGED <<records, cached, store, writes, nops, waiters>>
    /\ UNCHANGED <<pvars, evars, inits>>

StorageReadDone(n) == StorageRead(n, FALSE)
StorageReadFail(n) == StorageRead(n, TRUE)

\* getJsonRpcRecords, lines 271-272: hands the records, or the error, on.
HGetJsonRpcRecords ==
    /\ Running("init", "getJsonRpcRecords")
    /\ mq' = Append(Tail(mq), [Head(mq) EXCEPT !.pc = "restore"])
    /\ emitted' = << >>
    /\ returned' = << >>
    /\ UNCHANGED <<records, cached, store, writes, reads, nops, waiters>>
    /\ UNCHANGED <<pvars, evars, inits>>

\* restore without the check of line 300: the persisted records are staged
\* although the index holds records.
Restored_override(c) ==
    IF c.failed \/ Len(c.persisted) = 0
    THEN cached
    ELSE Parsed(c.persisted, c.n)

\* restore, lines 297-313: this.cached after it.
Restored(c) ==
    IF c.failed \/ Len(c.persisted) = 0 \/ Len(records) # 0
    THEN cached
    ELSE Parsed(c.persisted, c.n)

HRestore ==
    /\ Running("init", "restore")
    /\ cached' = Restored(Head(mq))
    /\ mq' = Append(Tail(mq), [Head(mq) EXCEPT !.pc = "initialize"])
    /\ emitted' = << >>
    /\ returned' = << >>
    /\ UNCHANGED <<records, store, writes, reads, nops, waiters>>
    /\ UNCHANGED <<pvars, evars, inits>>

\* reset, line 323: every cached record is set in the index.
RECURSIVE reset(_, _)
reset(recs, cache) ==
    IF cache = << >> THEN recs
    ELSE reset(RecordsSet(recs, Head(cache)), Tail(cache))

\* initialize, lines 318-319: reset, then onInit (lines 327-328); init, which
\* awaits initialize (line 145), goes on one turn later.
HInitialize ==
    /\ Running("init", "initialize")
    /\ records' = reset(records, cached)
    /\ cached' = << >>
    /\ emitted' = <<[name |-> "init"]>>
    /\ mq' = (Tail(mq) \o Released(waiters)) \o <<[Head(mq) EXCEPT !.pc = "init"]>>
    /\ waiters' = << >>
    /\ returned' = << >>
    /\ inits' = inits + 1
    /\ UNCHANGED <<store, writes, reads, nops>>
    /\ UNCHANGED <<pvars, evars>>

\* init, lines 145-146: initialize has completed and init returns.
HInit ==
    /\ Running("init", "init")
    /\ mq' = Tail(mq)
    /\ returned' = Done(Head(mq), Void)
    /\ emitted' = << >>
    /\ UNCHANGED <<records, cached, store, writes, reads, nops, waiters>>
    /\ UNCHANGED <<pvars, evars, inits>>

\* storage.setItem completes (line 267): the store holds the snapshot.
StorageWriteDone(snapshot) ==
    /\ BagIn(snapshot, writes)
    /\ writes' = writes (-) SetToBag({snapshot})
    /\ store' = snapshot
    /\ mq' = Append(mq, [n |-> 0, kind |-> "persist", args |-> << >>,
                         pc |-> "setJsonRpcRecords", hops |-> 0])
    /\ emitted' = << >>
    /\ returned' = << >>
    /\ UNCHANGED <<records, cached, reads, nops, waiters>>
    /\ UNCHANGED <<pvars, evars, inits>>

\* setJsonRpcRecords, lines 267-268: returns to persist, which awaits it.
HSetJsonRpcRecords ==
    /\ Running("persist", "setJsonRpcRecords")
    /\ mq' = Append(Tail(mq), [Head(mq) EXCEPT !.pc = "persist"])
    /\ emitted' = << >>
    /\ returned' = << >>
    /\ UNCHANGED <<records, cached, store, writes, reads, nops, waiters>>
    /\ UNCHANGED <<pvars, evars, inits>>

\* persist, line 292: the sync event.
HPersist ==
    /\ Running("persist", "persist")
    /\ mq' = Tail(mq)
    /\ emitted' = <<[name |-> "sync"]>>
    /\ returned' = << >>
    /\ UNCHANGED <<records, cached, store, writes, reads, nops, waiters>>
    /\ UNCHANGED <<pvars, evars, inits>>

(***************************************************************************)
(* Expirer                                                                 *)
(*                                                                         *)
(* expirations is the Map in insertion order, a sequence of [key, value]   *)
(* entries; a value is an ExpirerTypes.Expiration {topic, expiry}, with    *)
(* expiry in seconds. Date.now() is the variable now, in milliseconds; it  *)
(* does not advance within one synchronous stretch of code.                *)
(***************************************************************************)
Expiries == {1, 2}

\* The expiration argument of set: its topic field need not be the key.
Expirations == [topic : Topics, expiry : Expiries]

\* What the durable store can hold under the Expirer's key at the start.
ExpirerStoredAtStart ==
    {<< >>,
     <<[topic |-> "topicA", expiry |-> 1], [topic |-> "topicB", expiry |-> 2]>>}

\* toMiliseconds(seconds), called on line 529.
toMiliseconds(seconds) == seconds * 1000

\* expirations.has / get / set / delete, and this.values (lines 419-421).
ExpHas(exps, topic) == \E k \in 1..Len(exps) : exps[k].key = topic

ExpGet(exps, topic) == exps[CHOOSE k \in 1..Len(exps) : exps[k].key = topic].value

ExpSet(exps, topic, expiration) ==
    IF ExpHas(exps, topic)
    THEN [k \in 1..Len(exps) |->
             IF exps[k].key = topic
             THEN [key |-> topic, value |-> expiration] ELSE exps[k]]
    ELSE Append(exps, [key |-> topic, value |-> expiration])

ExpDelete(exps, topic) == SelectSeq(exps, LAMBDA e : e.key # topic)

ExpValues(exps) == [k \in 1..Len(exps) |-> exps[k].value]

\* has, lines 423-431: getExpiration throws NO_MATCHING_ID, has returns false.
has(exps, topic) == ExpHas(exps, topic)

\* persist, lines 488-489, run by each of the n registered listeners of an
\* event: setItem(this.values).
ExpirerPersisted(ws, exps, n) ==
    IF n = 0 THEN ws ELSE ws (+) [v \in {ExpValues(exps)} |-> n]

\* events.emit(name, {topic, expiration}) on the state acc, a record of the
\* index, the events emitted so far and the writes in flight; n listeners
\* of the event are registered (lines 547-564).
ExpirerEmit(acc, name, topic, expiration, n) ==
    [expirations |-> acc.expirations,
     emitted     |-> Append(acc.emitted, [name |-> name, topic |-> topic,
                                          expiration |-> expiration]),
     writes      |-> ExpirerPersisted(acc.writes, acc.expirations, n)]

\* expire, lines 533-539.
expire(acc, topic, expiration, n) ==
    ExpirerEmit([acc EXCEPT !.expirations = ExpDelete(acc.expirations, topic)],
                "expired", topic, expiration, n)

\* checkExpiry with the comparison < 0: an entry expiring now is kept.
checkExpiry_late(acc, topic, expiration, t, n) ==
    IF toMiliseconds(expiration.expiry) - t < 0
    THEN expire(acc, topic, expiration, n)
    ELSE acc

\* checkExpiry, lines 527-531, with t the value of Date.now().
checkExpiry(acc, topic, expiration, t, n) ==
    IF toMiliseconds(expiration.expiry) - t <= 0
    THEN expire(acc, topic, expiration, n)
    ELSE acc

\* A sweep that steps over the entry following one it has just removed.
RECURSIVE SweepFrom_skip(_, _, _, _, _)
SweepFrom_skip(entries, k, acc, ts, n) ==
    IF k > Len(entries) THEN acc
    ELSE LET checked == checkExpiry(acc, entries[k].key, entries[k].value, ts[k], n)
         IN  SweepFrom_skip(entries,
                            IF checked = acc THEN k + 1 ELSE k + 2,
                            checked, ts, n)

\* checkExpirations, lines 541-543: expirations.forEach from entry k on; an
\* entry deleted by an earlier check is not visited. Every checkExpiry reads
\* Date.now() itself (line 529): ts[k] is the clock when entry k is checked.
RECURSIVE SweepFrom(_, _, _, _, _)
SweepFrom(entries, k, acc, ts, n) ==
    IF k > Len(entries) THEN acc
    ELSE SweepFrom(entries, k + 1,
                   IF ExpHas(acc.expirations, entries[k].key)
                   THEN checkExpiry(acc, entries[k].key,
                                    ExpGet(acc.expirations, entries[k].key),
                                    ts[k], n)
                   ELSE acc,
                   ts, n)

checkExpirations(acc, ts, n) == SweepFrom(acc.expirations, 1, acc, ts, n)

\* A heartbeat pulse runs the pulse listeners, lines 546: m of them are
\* still to run, and ts holds the clock readings of their sweeps one sweep
\* after the other, Len(ts) \div m readings for each.
RECURSIVE PulseListeners(_, _, _, _)
PulseListeners(m, acc, ts, n) ==
    IF m = 0 THEN acc
    ELSE LET each == Len(ts) \div m
         IN  PulseListeners(m - 1,
                            checkExpirations(acc, SubSeq(ts, 1, each), n),
                            SubSeq(ts, each + 1, Len(ts)), n)

\* The values Date.now() can return in len successive reads that start at
\* time from: the clock never goes back and may turn between two reads.
RECURSIVE ClockReadings(_, _)
ClockReadings(len, from) ==
    IF len = 0 THEN {<< >>}
    ELSE UNION {{<<t>> \o rest : rest \in ClockReadings(len - 1, t)} :
                  t \in {toMiliseconds(sec) : sec \in (from \div 1000)..MaxTicks}}

\* set, lines 435-440, on an initialized Expirer.
ExpirerSetOutcome(acc, topic, expiration, t, n) ==
    LET stored  == [acc EXCEPT !.expirations = ExpSet(acc.expirations, topic, expiration)]
        checked == checkExpiry(stored, topic, expiration, t, n)
    IN  ExpirerEmit(checked, "created", topic, expiration, n)

ExpirerState == [expirations |-> expirations, emitted |-> << >>,
                 writes |-> expirerWrites]

ExpirerDone(kind, args, result) ==
    <<[kind |-> kind, args |-> args, result |-> result]>>

\* set without the isInitialized call: it stores, checks and emits whether or
\* not init has completed.
ESet_unguarded(topic, expiration) ==
    /\ eops < MaxEOps
    /\ eops' = eops + 1
    /\ LET r == ExpirerSetOutcome(ExpirerState, topic, expiration, now, listeners)
       IN  /\ expirations' = r.expirations
           /\ eemitted' = r.emitted
           /\ expirerWrites' = r.writes
           /\ ereturned' = ExpirerDone("set", [topic |-> topic,
                                               expiration |-> expiration], Void)
    /\ UNCHANGED <<expirerCached, initialized, listeners, expirerStore,
                   expirerReads, now, emq>>
    /\ UNCHANGED <<pvars, hvars>>

\* set, lines 433-441: synchronous; isInitialized (lines 567-571) throws
\* NOT_INITIALIZED before anything is done.
ESet(topic, expiration) ==
    /\ eops < MaxEOps
    /\ eops' = eops + 1
    /\ LET args == [topic |-> topic, expiration |-> expiration]
       IN  IF ~initialized
           THEN /\ ereturned' = ExpirerDone("set", args, Threw("NOT_INITIALIZED"))
                /\ eemitted' = << >>
                /\ UNCHANGED <<expirations, expirerWrites>>
           ELSE LET r == ExpirerSetOutcome(ExpirerState, topic, expiration,
                                           now, listeners)
                IN  /\ expirations' = r.expirations
                    /\ eemitted' = r.emitted
                    /\ expirerWrites' = r.writes
                    /\ ereturned' = ExpirerDone("set", args, Void)
    /\ UNCHANGED <<expirerCached, initialized, listeners, expirerStore,
                   expirerReads, now, emq>>
    /\ UNCHANGED <<pvars, hvars>>

\* get, lines 443-446, and getExpiration, lines 514-525.
EGet(topic) ==
    /\ eops < MaxEOps
    /\ eops' = eops + 1
    /\ ereturned' =
          ExpirerDone("get", [topic |-> topic],
                      IF ~initialized THEN Threw("NOT_INITIALIZED")
                      ELSE IF ~ExpHas(expirations, topic) THEN Threw("NO_MATCHING_ID")
                      ELSE [outcome |-> "expiration",
                            expiration |-> ExpGet(expirations, topic)])
    /\ eemitted' = << >>
    /\ UNCHANGED <<expirations, expirerCached, initialized, listeners,
                   expirerStore, expirerWrites, expirerReads, now, emq>>
    /\ UNCHANGED <<pvars, hvars>>

\* del, lines 448-450: isInitialized, then has(topic) is evaluated and the
\* call suspends on await.
EDelCall(topic) ==
    /\ eops < MaxEOps
    /\ eops' = eops + 1
    /\ IF ~initialized
       THEN /\ ereturned' = ExpirerDone("del", [topic |-> topic],
                                        Threw("NOT_INITIALIZED"))
            /\ UNCHANGED emq
       ELSE /\ emq' = Append(emq, [n |-> eops + 1, kind |-> "del",
                                   args |-> [topic |-> topic], pc |-> "del",
                                   exists |-> has(expirations, topic)])
            /\ ereturned' = << >>
    /\ eemitted' = << >>
    /\ UNCHANGED <<expirations, expirerCached, initialized, listeners,
                   expirerStore, expirerWrites, expirerReads, now>>
    /\ UNCHANGED <<pvars, hvars>>

ExpirerRunning(kind, pc) ==
    /\ emq # << >>
    /\ Head(emq).kind = kind
    /\ Head(emq).pc = pc

\* del, lines 451-458: getExpiration throws NO_MATCHING_ID when the entry
\* has gone since has(topic) was evaluated.
EDel ==
    /\ ExpirerRunning("del", "del")
    /\ LET c == Head(emq)
       IN  IF ~c.exists
           THEN /\ ereturned' = ExpirerDone("del", c.args, Void)
                /\ eemitted' = << >>
                /\ UNCHANGED <<expirations, expirerWrites>>
           ELSE IF ~ExpHas(expirations, c.args.topic)
           THEN /\ ereturned' = ExpirerDone("del", c.args, Threw("NO_MATCHING_ID"))
                /\ eemitted' = << >>
                /\ UNCHANGED <<expirations, expirerWrites>>
           ELSE LET r == ExpirerEmit(
                             [ExpirerState EXCEPT
                                 !.expirations = ExpDelete(expirations, c.args.topic)],
                             "deleted", c.args.topic,
                             ExpGet(expirations, c.args.topic), listeners)
                IN  /\ expirations' = r.expirations
                    /\ eemitted' = r.emitted
                    /\ expirerWrites' = r.writes
                    /\ ereturned' = ExpirerDone("del", c.args, Void)
    /\ emq' = Tail(emq)
    /\ UNCHANGED <<expirerCached, initialized, listeners, expirerStore,
                   expirerReads, now, eops>>
    /\ UNCHANGED <<pvars, hvars>>

\* init, lines 392-395, restore and getExpirations up to storage.getItem
\* (line 484); an initialized Expirer returns at once.
EInitCall ==
    /\ eops < MaxEOps
    /\ eops' = eops + 1
    /\ IF initialized
       THEN /\ ereturned' = ExpirerDone("init", << >>, Void)
            /\ UNCHANGED expirerReads
       ELSE /\ expirerReads' = expirerReads \cup {eops + 1}
            /\ ereturned' = << >>
    /\ eemitted' = << >>
    /\ UNCHANGED <<expirations, expirerCached, initialized, listeners,
                   expirerStore, expirerWrites, now, emq>>
    /\ UNCHANGED <<pvars, hvars>>

\* storage.getItem settles: with the stored expirations, or with an error.
EStorageRead(n, failed) ==
    /\ n \in expirerReads
    /\ expirerReads' = expirerReads \ {n}
    /\ emq' = Append(emq, [n |-> n, kind |-> "init", args |-> << >>,
                           pc |-> "getExpirations", failed |-> failed,
                           persisted |-> IF failed THEN << >> ELSE expirerStore])
    /\ eemitted' = << >>
    /\ ereturned' = << >>
    /\ UNCHANGED <<expirations, expirerCached, initialized, listeners,
                   expirerStore, expirerWrites, now, eops>>
    /\ UNCHANGED <<pvars, hvars>>

EStorageReadDone(n) == EStorageRead(n, FALSE)
EStorageReadFail(n) == EStorageRead(n, TRUE)

\* getExpirations, lines 484-485: hands the expirations, or the error, on.
EGetExpirations ==
    /\ ExpirerRunning("init", "getExpirations")
    /\ emq' = Append(Tail(emq), [Head(emq) EXCEPT !.pc = "restore"])
    /\ eemitted' = << >>
    /\ ereturned' = << >>
    /\ UNCHANGED <<expirations, expirerCached, initialized, listeners,
                   expirerStore, expirerWrites, expirerReads, now, eops>>
    /\ UNCHANGED <<pvars, hvars>>

\* restore, lines 495-511: this.cached after it.
ExpirerRestored(c) ==
    IF c.failed \/ Len(c.persisted) = 0 \/ Len(expirations) # 0
    THEN expirerCached
    ELSE c.persisted

ERestore ==
    /\ ExpirerRunning("init", "restore")
    /\ expirerCached' = ExpirerRestored(Head(emq))
    /\ emq' = Append(Tail(emq), [Head(emq) EXCEPT !.pc = "init"])
    /\ eemitted' = << >>
    /\ ereturned' = << >>
    /\ UNCHANGED <<expirations, initialized, listeners, expirerStore,
                   expirerWrites, expirerReads, now, eops>>
    /\ UNCHANGED <<pvars, hvars>>

\* init, line 396: every cached expiration is set under its own topic.
RECURSIVE ExpirerMerge(_, _)
ExpirerMerge(exps, cache) ==
    IF cache = << >> THEN exps
    ELSE ExpirerMerge(ExpSet(exps, Head(cache).topic, Head(cache)), Tail(cache))

\* init, lines 396-399.
EInit ==
    /\ ExpirerRunning("init", "init")
    /\ expirations' = ExpirerMerge(expirations, expirerCached)
    /\ expirerCached' = << >>
    /\ listeners' = listeners + 1
    /\ initialized' = TRUE
    /\ emq' = Tail(emq)
    /\ eemitted' = << >>
    /\ ereturned' = ExpirerDone("init", << >>, Void)
    /\ UNCHANGED <<expirerStore, expirerWrites, expirerReads, now, eops>>
    /\ UNCHANGED <<pvars, hvars>>

\* A heartbeat pulse: every registered pulse listener runs checkExpirations,
\* and the clock may turn while they run.
EPulse ==
    /\ \E ts \in ClockReadings(listeners * Len(expirations), now) :
          LET r == PulseListeners(listeners, ExpirerState, ts, listeners)
          IN  /\ expirations' = r.expirations
              /\ eemitted' = r.emitted
              /\ expirerWrites' = r.writes
              /\ now' = IF ts = << >> THEN now ELSE ts[Len(ts)]
    /\ ereturned' = ExpirerDone("pulse", << >>, Void)
    /\ UNCHANGED <<expirerCached, initialized, listeners, expirerStore,
                   expirerReads, emq, eops>>
    /\ UNCHANGED <<pvars, hvars>>

\* A second passes.
Tick ==
    /\ now < toMiliseconds(MaxTicks)
    /\ now' = now + toMiliseconds(1)
    /\ eemitted' = << >>
    /\ ereturned' = << >>
    /\ UNCHANGED <<expirations, expirerCached, initialized, listeners,
                   expirerStore, expirerWrites, expirerReads, emq, eops>>
    /\ UNCHANGED <<pvars, hvars>>

\* storage.setItem completes (line 480): the store holds the snapshot.
EStorageWriteDone(snapshot) ==
    /\ BagIn(snapshot, expirerWrites)
    /\ expirerWrites' = expirerWrites (-) SetToBag({snapshot})
    /\ expirerStore' = snapshot
    /\ emq' = Append(emq, [n |-> 0, kind |-> "persist", args |-> << >>,
                           pc |-> "setExpirations"])
    /\ eemitted' = << >>
    /\ ereturned' = << >>
    /\ UNCHANGED <<expirations, expirerCached, initialized, listeners,
                   expirerReads, now, eops>>
    /\ UNCHANGED <<pvars, hvars>>

\* setExpirations, lines 480-481: returns to persist, which awaits it.
ESetExpirations ==
    /\ ExpirerRunning("persist", "setExpirations")
    /\ emq' = Append(Tail(emq), [Head(emq) EXCEPT !.pc = "persist"])
    /\ eemitted' = << >>
    /\ ereturned' = << >>
    /\ UNCHANGED <<expirations, expirerCached, initialized, listeners,
                   expirerStore, expirerWrites, expirerReads, now, eops>>
    /\ UNCHANGED <<pvars, hvars>>

\* persist, line 490: the sync event.
EPersist ==
    /\ ExpirerRunning("persist", "persist")
    /\ emq' = Tail(emq)
    /\ eemitted' = <<[name |-> "sync"]>>
    /\ ereturned' = << >>
    /\ UNCHANGED <<expirations, expirerCached, initialized, listeners,
                   expirerStore, expirerWrites, expirerReads, now, eops>>
    /\ UNCHANGED <<pvars, hvars>>

Init ==
    /\ queue = << >>
    /\ calls = << >>
    /\ retries = EmptyBag
    /\ failures = 0
    /\ records = << >>
    /\ cached = << >>
    /\ store \in StoredAtStart
    /\ writes = EmptyBag
    /\ reads = {}
    /\ nops = 0
    /\ mq = << >>
    /\ waiters = << >>
    /\ emitted = << >>
    /\ returned = << >>
    /\ inits = 0
    /\ expirations = << >>
    /\ expirerCached = << >>
    /\ initialized = FALSE
    /\ listeners = 0
    /\ expirerStore = << >>
    /\ expirerWrites = EmptyBag
    /\ expirerReads = {}
    /\ now = 0
    /\ emq = << >>
    /\ eops = 0
    /\ eemitted = << >>
    /\ ereturned = << >>

PublisherNext ==
    \/ \E t \in Topics, m \in Messages, o \in OptsArgs : PublishSet(t, m, o)
    \/ \E i \in DOMAIN calls : PublishSubmit(i)
    \/ \E i \in DOMAIN calls : PublishAck(i)
    \/ \E i \in DOMAIN calls : PublishFail(i)
    \/ Pulse
    \/ \E r \in BagToSet(retries) : RetryAck(r)
    \/ \E r \in BagToSet(retries) : RetryFail(r)

PublisherSpec == Init /\ [][PublisherNext]_vars

HistoryNext ==
    \/ \E a \in SetArgs : HSetCall(a)
    \/ \E a \in ResolveArgs : HResolveCall(a)
    \/ \E a \in GetArgs : HGetCall(a)
    \/ \E a \in DeleteArgs : HDeleteCall(a)
    \/ \E a \in GetArgs : HExistsCall(a)
    \/ HInitCall
    \/ \E n \in reads : StorageReadDone(n)
    \/ \E n \in reads : StorageReadFail(n)
    \/ HAdopt
    \/ HHop
    \/ HSet
    \/ HResolve
    \/ HGet
    \/ HExists
    \/ HGetRecord
    \/ HGetRecordThrew
    \/ HResolved
    \/ HGot
    \/ HExisted
    \/ HDelete
    \/ HGetJsonRpcRecords
    \/ HRestore
    \/ HInitialize
    \/ HInit
    \/ \E w \in BagToSet(writes) : StorageWriteDone(w)
    \/ HSetJsonRpcRecords
    \/ HPersist

HistorySpec == Init /\ [][HistoryNext]_vars

\* The Expirer after construction, lines 376-382.
ExpirerInit ==
    /\ queue = << >>
    /\ calls = << >>
    /\ retries = EmptyBag
    /\ failures = 0
    /\ records = << >>
    /\ cached = << >>
    /\ store = << >>
    /\ writes = EmptyBag
    /\ reads = {}
    /\ nops = 0
    /\ mq = << >>
    /\ waiters = << >>
    /\ emitted = << >>
    /\ returned = << >>
    /\ inits = 0
    /\ expirations = << >>
    /\ expirerCached = << >>
    /\ initialized = FALSE
    /\ listeners = 0
    /\ expirerStore \in ExpirerStoredAtStart
    /\ expirerWrites = EmptyBag
    /\ expirerReads = {}
    /\ now = 0
    /\ emq = << >>
    /\ eops = 0
    /\ eemitted = << >>
    /\ ereturned = << >>

ExpirerNext ==
    \/ \E t \in Topics, e \in Expirations : ESet(t, e)
    \/ \E t \in Topics : EGet(t)
    \/ \E t \in Topics : EDelCall(t)
    \/ EDel
    \/ EInitCall
    \/ \E n \in expirerReads : EStorageReadDone(n)
    \/ \E n \in expirerReads : EStorageReadFail(n)
    \/ EGetExpirations
    \/ ERestore
    \/ EInit
    \/ EPulse
    \/ Tick
    \/ \E w \in BagToSet(expirerWrites) : EStorageWriteDone(w)
    \/ ESetExpirations
    \/ EPersist

ExpirerSpec == ExpirerInit /\ [][ExpirerNext]_vars

\* Startup of JsonRpcHistory and of Expirer: init calls, which may overlap,
\* and set calls around them. The two components share no state: a behaviour
\* exercises one of them, the other stays as constructed.
HistoryUntouched == nops = 0 /\ store = << >>
ExpirerUntouched == eops = 0 /\ now = 0 /\ expirerStore = << >>

StartupNext ==
    \/ ExpirerUntouched /\ \E a \in SetArgs : HSetCall(a)
    \/ ExpirerUntouched /\ HInitCall
    \/ ExpirerUntouched /\ \E n \in reads : StorageReadDone(n)
    \/ ExpirerUntouched /\ \E n \in reads : StorageReadFail(n)
    \/ ExpirerUntouched /\ HAdopt
    \/ ExpirerUntouched /\ HHop
    \/ ExpirerUntouched /\ HSet
    \/ ExpirerUntouched /\ HGetJsonRpcRecords
    \/ ExpirerUntouched /\ HRestore
    \/ ExpirerUntouched /\ HInitialize
    \/ ExpirerUntouched /\ HInit
    \/ ExpirerUntouched /\ \E w \in BagToSet(writes) : StorageWriteDone(w)
    \/ ExpirerUntouched /\ HSetJsonRpcRecords
    \/ ExpirerUntouched /\ HPersist
    \/ HistoryUntouched /\ \E t \in Topics, e \in Expirations : ESet(t, e)
    \/ HistoryUntouched /\ EInitCall
    \/ HistoryUntouched /\ \E n \in expirerReads : EStorageReadDone(n)
    \/ HistoryUntouched /\ \E n \in expirerReads : EStorageReadFail(n)
    \/ HistoryUntouched /\ EGetExpirations
    \/ HistoryUntouched /\ ERestore
    \/ HistoryUntouched /\ EInit
    \/ HistoryUntouched /\ \E w \in BagToSet(expirerWrites) : EStorageWriteDone(w)
    \/ HistoryUntouched /\ ESetExpirations
    \/ HistoryUntouched /\ EPersist

StartupSpec == (Init \/ ExpirerInit) /\ [][StartupNext]_vars

\* All the resubmission requests checkQueue can issue.
RetryRecords ==
    {RetryOf(PublishParams(t, m, o)) : t \in Topics, m \in Messages, o \in OptsArgs}

\* Heartbeat pulses keep occurring, every request is answered, and the
\* transport stops failing (at most MaxFailures requests fail).
PublisherFairSpec ==
    /\ PublisherSpec
    /\ WF_vars(Pulse)
    /\ \A i \in 1..MaxCalls : WF_vars(PublishSubmit(i)) /\ WF_vars(PublishAck(i))
    /\ \A r \in RetryRecords : WF_vars(RetryAck(r))

(***************************************************************************)
(* Publisher claims                                                        *)
(***************************************************************************)
Queued(i) ==
    /\ calls[i].hash \in DOMAIN queue
    /\ queue[calls[i].hash].topic = calls[i].topic
    /\ queue[calls[i].hash].message = calls[i].message

\* The step submits call i's request.
Submits(i) == calls[i].status = "set" /\ calls'[i].status = "awaiting"
\* The step is the successful return of call i.
Returns(i) == calls[i].status = "awaiting" /\ calls'[i].status = "returned"
\* The step is the failure of call i's request.
Throws(i) == calls[i].status = "awaiting" /\ calls'[i].status = "threw"
\* The step is the success of a resubmission of fingerprint h.
RetryAcked(h) ==
    \E r \in BagToSet(retries) :
        /\ r.hash = h
        /\ retries' = retries (-) SetToBag({r})
        /\ failures' = failures

\* C1: publish puts {topic, message, {ttl, relay, prompt}} in the queue under
\* the message's fingerprint before the transport request is issued (the
\* entry is there in the state the request is issued from), and a call that
\* returns after a successful request leaves no entry under its fingerprint.
C1_InsertBeforeSubmit ==
    [][\A i \in DOMAIN calls' :
         /\ i \notin DOMAIN calls =>
              /\ calls'[i].status = "set"
              /\ calls'[i].hash = hashMessage(calls'[i].message)
              /\ calls'[i].hash \in DOMAIN queue'
              /\ queue'[calls'[i].hash] =
                   [topic   |-> calls'[i].topic,
                    message |-> calls'[i].message,
                    opts    |-> [ttl    |-> IF calls'[i].args.ttl = "undefined"
                                           THEN PUBLISHER_DEFAULT_TTL
                                           ELSE calls'[i].args.ttl,
                                 relay  |-> DefaultRelay,
                                 prompt |-> IF calls'[i].args.prompt = "true"
                                           THEN "true" ELSE "false"]]
         /\ i \in DOMAIN calls /\ Submits(i) =>
              /\ Queued(i)
              /\ queue[calls[i].hash] = calls[i].params
              /\ queue' = queue
         /\ i \in DOMAIN calls /\ Returns(i) =>
              calls[i].hash \notin DOMAIN queue'
      ]_vars

C1_Witness ==
    \E i \in DOMAIN calls :
        /\ calls[i].status = "returned"
        /\ calls[i].hash \notin DOMAIN queue

\* C2: when the request issued by publish fails, publish throws and the
\* queue is exactly what it was before the failure: the entry is not taken
\* out.
C2_FailureLeavesEntry ==
    [][(failures' # failures /\ calls' # calls) =>
          /\ \E i \in DOMAIN calls : Throws(i)
          /\ queue' = queue
      ]_vars

C2_Witness ==
    \E i \in DOMAIN calls :
        /\ calls[i].status = "threw"
        /\ Queued(i)
        /\ queue[calls[i].hash] = calls[i].params

\* C3: with one message published, its fingerprint is in the queue for as
\* long as no attempt has succeeded and is out of it once one has; no failed
\* attempt (of publish or of a pulse) changes the queue, and a successful
\* attempt removes the entry of its fingerprint and nothing else, so a later
\* success for the same fingerprint finds nothing to remove.
C3_RetryUntilSuccess ==
    /\ [](Len(calls) = 1 =>
            /\ ~calls[1].acked => Queued(1)
            /\ calls[1].acked => queue = << >>)
    /\ [][/\ failures' # failures => queue' = queue
          /\ \A h \in Hashes :
                (RetryAcked(h) \/ \E i \in DOMAIN calls : Returns(i) /\ calls[i].hash = h)
                    => queue' = MapDelete(queue, h)
         ]_vars

C3_Witness ==
    /\ Len(calls) = 1
    /\ calls[1].status = "threw"
    /\ failures >= 2
    /\ calls[1].acked
    /\ queue = << >>

\* C4: every publish call whose first attempt failed has its topic and
\* message acknowledged by the transport in the end.
C4_EventualDelivery ==
    \A i \in 1..MaxCalls :
        (i \in DOMAIN calls /\ calls[i].status = "threw")
            ~> (i \in DOMAIN calls /\ calls[i].acked)

\* C5: a publish call's entry, with the call's topic and message, is in the
\* queue until the transport has acknowledged a request for that topic and
\* message.
C5_PresentUntilAcked ==
    \A i \in DOMAIN calls : ~calls[i].acked => Queued(i)

(***************************************************************************)
(* JsonRpcHistory claims                                                   *)
(***************************************************************************)
\* The step runs the last stretch of a call of this kind: the call returns
\* or throws in it.
Completes(kind) == returned' # << >> /\ returned'[1].kind = kind

\* The record stored under id, without the identity of its object.
Stored(recs, id) == Content(RecordsGet(recs, id))

\* C6: a set whose id already has a record (from an earlier set or from
\* storage) leaves the index as it is, emits nothing and writes nothing,
\* whatever its arguments; a set whose id has no record adds the record built
\* from its arguments. So a set never changes a record that is stored.
C6_IdempotentFirstWrite ==
    [][Completes("set") =>
         LET args == returned'[1].args
             id   == args.request.id
         IN  /\ returned'[1].result = Void
             /\ RecordsHas(records, id) =>
                  /\ records' = records
                  /\ emitted' = << >>
                  /\ writes' = writes
             /\ ~RecordsHas(records, id) =>
                  /\ Snapshot(records') =
                       Append(Snapshot(records),
                              [id      |-> id,
                               topic   |-> args.topic,
                               request |-> [method |-> args.request.method,
                                            params |-> IF args.request.params = "undefined"
                                                         THEN "null"
                                                         ELSE args.request.params],
                               chainId |-> args.chainId])
                  /\ Len(emitted') = 1
                  /\ emitted'[1].name = "created"
                  /\ emitted'[1].record = Stored(records', id)
      ]_vars

\* A set has just returned without an event, and the record under its id has
\* another topic than the call carried.
C6_Witness ==
    /\ returned # << >>
    /\ returned[1].kind = "set"
    /\ emitted = << >>
    /\ RecordsHas(records, returned[1].args.request.id)
    /\ RecordsGet(records, returned[1].args.request.id).topic # returned[1].args.topic

\* C7: a resolve that finds no record under its id, or whose record already
\* has a response, changes nothing and emits nothing; any other resolve that
\* returns stores {error} for an error response and {result} otherwise,
\* nothing else about the record changing, and emits updated. No step of any
\* operation changes or removes the response of a record that stays stored
\* (a record is one JsonRpcRecord object: the index holding another object
\* under the id holds another record).
C7_WriteOnceResponse ==
    [][/\ Completes("resolve") =>
            LET c    == Head(mq)
                args == returned'[1].args
            IN  \/ /\ returned'[1].result = Threw("NO_MATCHING_ID")
                   /\ c.pc = "threw"
                   /\ records' = records /\ emitted' = << >> /\ writes' = writes
                \/ /\ returned'[1].result = Void
                   /\ c.pc = "body"
                   /\ ~RecordsHas(records, args.id)
                   /\ records' = records /\ emitted' = << >> /\ writes' = writes
                \/ /\ returned'[1].result = Void
                   /\ c.pc = "record"
                   /\ HasResponse(c.rec)
                   /\ records' = records /\ emitted' = << >> /\ writes' = writes
                \/ /\ returned'[1].result = Void
                   /\ c.pc = "record"
                   /\ ~HasResponse(c.rec)
                   /\ RecordsHas(records', args.id)
                   /\ Stored(records', args.id).response =
                        (IF "error" \in DOMAIN args
                         THEN [error |-> args.error] ELSE [result |-> args.result])
                   /\ [f \in DOMAIN Stored(records', args.id) \ {"response"} |->
                          Stored(records', args.id)[f]] = Content(c.rec)
                   /\ \A id \in Ids \ {args.id} :
                         /\ RecordsHas(records', id) <=> RecordsHas(records, id)
                         /\ RecordsHas(records, id) =>
                               RecordsGet(records', id) = RecordsGet(records, id)
                   /\ emitted' = <<[name |-> "updated",
                                    record |-> Stored(records', args.id)]>>
       /\ \A id \in Ids :
            (/\ RecordsHas(records, id)
             /\ HasResponse(RecordsGet(records, id))
             /\ RecordsHas(records', id)
             /\ SameObject(RecordsGet(records', id), RecordsGet(records, id)))
                => /\ HasResponse(RecordsGet(records', id))
                   /\ RecordsGet(records', id).response = RecordsGet(records, id).response
      ]_vars

\* A second resolve, with another response, has just returned without an
\* event and the record keeps the first response.
C7_Witness ==
    /\ returned # << >>
    /\ returned[1].kind = "resolve"
    /\ emitted = << >>
    /\ "error" \in DOMAIN returned[1].args
    /\ RecordsHas(records, returned[1].args.id)
    /\ HasResponse(RecordsGet(records, returned[1].args.id))
    /\ RecordsGet(records, returned[1].args.id).response = [result |-> "r1"]

\* C8: a get that returns hands out a record with the id and the topic it
\* was called with, the one the index held under that id when getRecord
\* looked it up; it throws MISMATCHED_TOPIC when that record has another
\* topic and NO_MATCHING_ID when getRecord found no record under the id
\* (the last conjunct: in the step that runs getRecord's lookup, the get
\* goes on with the record when the index holds one and to the throw when
\* it holds none).
\* A get never changes the index, emits nothing and writes nothing.
C8_TopicIsolation ==
    [][/\ Completes("get") =>
            LET c    == Head(mq)
                args == returned'[1].args
                res  == returned'[1].result
            IN  /\ records' = records /\ emitted' = << >> /\ writes' = writes
                /\ \/ /\ res = Threw("NO_MATCHING_ID")
                      /\ c.pc = "threw"
                   \/ /\ res = Threw("MISMATCHED_TOPIC")
                      /\ c.rec.id = args.id
                      /\ c.rec.topic # args.topic
                   \/ /\ res.outcome = "record"
                      /\ res.record = Content(c.rec)
                      /\ res.record.id = args.id
                      /\ res.record.topic = args.topic
       /\ (/\ mq # << >>
           /\ Head(mq).kind = "get"
           /\ Head(mq).pc = "getRecord"
           /\ Head(mq).hops = 0
           /\ mq' # mq /\ nops' = nops /\ reads' = reads /\ writes' = writes)
             => /\ returned' = << >>
                /\ records' = records
                /\ mq' # << >>
                /\ mq'[Len(mq')].kind = "get"
                /\ mq'[Len(mq')].args = Head(mq).args
                /\ IF RecordsHas(records, Head(mq).args.id)
                   THEN /\ mq'[Len(mq')].pc = "record"
                        /\ mq'[Len(mq')].rec = RecordsGet(records, Head(mq).args.id)
                   ELSE mq'[Len(mq')].pc = "threw"
      ]_vars

\* A get has just failed with MISMATCHED_TOPIC on an id stored under
\* another topic.
C8_Witness ==
    /\ returned # << >>
    /\ returned[1].kind = "get"
    /\ returned[1].result = Threw("MISMATCHED_TOPIC")
    /\ RecordsHas(records, returned[1].args.id)
    /\ RecordsGet(records, returned[1].args.id).topic # returned[1].args.topic

\* delete(topic, id?) is meant for this record.
Matches(record, args) ==
    /\ record.topic = args.topic
    /\ "id" \in DOMAIN args => record.id = args.id

ToEvents(recs, name) == [k \in 1..Len(recs) |-> Event(name, recs[k])]

\* C9: delete removes the records of the topic (the one record of that id,
\* when an id is given, if it has the topic) and no other, leaves every other
\* record as it is, emits one deleted event per removed record, and returns
\* without an error, also when nothing matches.
C9_DeleteExactlyMatching ==
    [][Completes("delete") =>
         LET args == returned'[1].args
         IN  /\ returned'[1].result = Void
             /\ records' = SelectSeq(records, LAMBDA r : ~Matches(r, args))
             /\ emitted' = ToEvents(SelectSeq(records, LAMBDA r : Matches(r, args)),
                                    "deleted")
             /\ BagCardinality(writes') = BagCardinality(writes) + Len(emitted')
      ]_vars

\* A delete with an id has just removed that record and left the other
\* record of the same topic.
C9_Witness ==
    /\ returned # << >>
    /\ returned[1].kind = "delete"
    /\ "id" \in DOMAIN returned[1].args
    /\ Len(emitted) = 1
    /\ emitted[1].name = "deleted"
    /\ emitted[1].record.id = returned[1].args.id
    /\ Len(records) = 1
    /\ records[1].topic = returned[1].args.topic

\* get(topic, id) would succeed on this index.
GetSucceeds(recs, args) ==
    /\ RecordsHas(recs, args.id)
    /\ RecordsGet(recs, args.id).topic = args.topic

\* C10: exists never throws, and returns true exactly when the index holds a
\* record under the id with the topic.
C10_ExistsNeverRaises ==
    (returned # << >> /\ returned[1].kind = "exists") =>
        /\ returned[1].result.outcome = "bool"
        /\ returned[1].result.bool = GetSucceeds(records, returned[1].args)

Range(seq) == {seq[k] : k \in 1..Len(seq)}

\* The element of the pending view that belongs to a record.
RequestEventOf(record) ==
    [topic   |-> record.topic,
     request |-> [id |-> record.id, jsonrpc |-> "2.0",
                  method |-> record.request.method,
                  params |-> record.request.params],
     chainId |-> record.chainId]

PendingViewCorrect(recs) ==
    /\ Len(pending(recs)) =
           Cardinality({k \in 1..Len(recs) : ~HasResponse(recs[k])})
    /\ \A k \in 1..Len(recs) :
           RequestEventOf(recs[k]) \in Range(pending(recs)) <=> ~HasResponse(recs[k])

\* C11: in every state pending holds one element per record without a
\* response, built from that record's topic, chainId, id, method and params,
\* and none for a record with a response; an element leaves the view only in
\* a step that resolves or deletes its record, and a resolved or deleted
\* record has no element in the view.
C11_PendingView ==
    [][/\ PendingViewCorrect(records')
       /\ \A e \in Range(pending(records)) \ Range(pending(records')) :
            \E ev \in Range(emitted') :
                /\ ev.name \in {"updated", "deleted"}
                /\ ev.record.id = e.request.id
       /\ \A ev \in Range(emitted') :
            ev.name \in {"updated", "deleted"} =>
                RequestEventOf(ev.record) \notin Range(pending(records'))
      ]_vars

(***************************************************************************)
(* Expirer claims                                                          *)
(***************************************************************************)
\* The step completes a call of the operation without an error.
ExpirerCompletes(kind) ==
    /\ ereturned' # << >>
    /\ ereturned'[1].kind = kind
    /\ ereturned'[1].result = Void

EventCount(events, name, topic) ==
    Cardinality({k \in 1..Len(events) :
                    events[k].name = name /\ events[k].topic = topic})

\* C12: a set on an initialized Expirer whose expiry is at or before the
\* current time leaves the topic out of the index and emits one expired
\* event; with a future expiry the entry is in the index and no expired event
\* is emitted; a created event is emitted in both cases.
C12_SetChecksAtOnce ==
    [][ExpirerCompletes("set") =>
        LET a == ereturned'[1].args
        IN  /\ EventCount(eemitted', "created", a.topic) = 1
            /\ IF a.expiration.expiry * 1000 <= now
               THEN /\ ~ExpHas(expirations', a.topic)
                    /\ EventCount(eemitted', "expired", a.topic) = 1
               ELSE /\ ExpHas(expirations', a.topic)
                    /\ ExpGet(expirations', a.topic) = a.expiration
                    /\ EventCount(eemitted', "expired", a.topic) = 0
      ]_vars

\* A set has just returned whose expiry is exactly the current time: the
\* entry was expired at once.
C12_Witness ==
    /\ ereturned # << >>
    /\ ereturned[1].kind = "set"
    /\ ereturned[1].result = Void
    /\ ereturned[1].args.expiration.expiry * 1000 = now
    /\ EventCount(eemitted, "expired", ereturned[1].args.topic) = 1
    /\ ~ExpHas(expirations, ereturned[1].args.topic)

Expired(expiration) == expiration.expiry * 1000 <= now

ExpiredAt(expiration, t) == toMiliseconds(expiration.expiry) <= t

\* The entry of the index before the step is gone after it, with exactly one
\* expired event, which carries it, and no deleted event.
SweptAway(e) ==
    /\ ~ExpHas(expirations', e.key)
    /\ EventCount(eemitted', "expired", e.key) = 1
    /\ EventCount(eemitted', "deleted", e.key) = 0
    /\ \E j \in 1..Len(eemitted') :
          eemitted'[j] = [name |-> "expired", topic |-> e.key,
                          expiration |-> e.value]

\* The entry of the index before the step is in it after the step, as it
\* was, and no event names it.
LeftAlone(e) ==
    /\ ExpHas(expirations', e.key)
    /\ ExpGet(expirations', e.key) = e.value
    /\ EventCount(eemitted', "expired", e.key) = 0
    /\ EventCount(eemitted', "deleted", e.key) = 0

\* C13 as stated: after a pulse handled by an initialized Expirer no entry of
\* the index has an expiry at or before the current time; every entry the
\* sweep removes produces exactly one expired event and no deleted event;
\* entries with a future expiry stay as they are, and nothing else is emitted.
C13_SweepRemovesExpired ==
    [][(ExpirerCompletes("pulse") /\ listeners >= 1) =>
        /\ \A k \in 1..Len(expirations') : ~ExpiredAt(expirations'[k].value, now')
        /\ \A k \in 1..Len(expirations) :
              LET e == expirations[k]
              IN  IF ExpiredAt(e.value, now') THEN SweptAway(e) ELSE LeftAlone(e)
        /\ Len(eemitted') + Len(expirations') = Len(expirations)
      ]_vars

\* C13, with the time of each check: a pulse handled by an initialized
\* Expirer removes every entry whose expiry is at or before the time at which
\* the pulse begins and leaves alone every entry whose expiry is after the
\* time at which it ends; an entry that expires while the sweep runs is
\* removed or left alone, as the clock stood when it was checked. Every
\* removed entry produces exactly one expired event and no deleted event,
\* and nothing else is emitted.
C13_SweepRemovesDue ==
    [][(ExpirerCompletes("pulse") /\ listeners >= 1) =>
        /\ now' >= now
        /\ \A k \in 1..Len(expirations') : ~ExpiredAt(expirations'[k].value, now)
        /\ \A k \in 1..Len(expirations) :
              LET e == expirations[k]
              IN  /\ ExpiredAt(e.value, now) => SweptAway(e)
                  /\ ~ExpiredAt(e.value, now') => LeftAlone(e)
                  /\ SweptAway(e) \/ LeftAlone(e)
        /\ Len(eemitted') + Len(expirations') = Len(expirations)
      ]_vars

\* A pulse has just swept one entry and left another one, which expired
\* while the sweep was running.
C13_Witness ==
    /\ ereturned # << >>
    /\ ereturned[1].kind = "pulse"
    /\ listeners >= 1
    /\ Len(eemitted) = 1
    /\ eemitted[1].name = "expired"
    /\ Len(expirations) = 1
    /\ ExpiredAt(expirations[1].value, now)

\* The periodic path for a set that expired at once: the same set made just
\* before the expiry, followed by a pulse at the current time.
Periodic(args) ==
    LET before == toMiliseconds(args.expiration.expiry) - 1
        made   == ExpirerSetOutcome(ExpirerState, args.topic, args.expiration,
                                    before, listeners)
    IN  PulseListeners(listeners, made,
                       [k \in 1..(listeners * Len(made.expirations)) |-> now],
                       listeners)

\* The step is a set that expires its entry at once, on an index that holds
\* no other expired entry.
EagerSet ==
    /\ ExpirerCompletes("set")
    /\ Expired(ereturned'[1].args.expiration)
    /\ \A k \in 1..Len(expirations) :
          expirations[k].key # ereturned'[1].args.topic => ~Expired(expirations[k].value)

\* C14: a set with an expiry already in the past yields the same events in
\* the same order, the same index and the same durable-store content as the
\* set made before the expiry followed by a pulse after it.
C14_EagerEqualsPeriodic ==
    [][EagerSet =>
        LET p == Periodic(ereturned'[1].args)
        IN  /\ eemitted' = p.emitted
            /\ expirations' = p.expirations
            /\ BagToSet(expirerWrites') = BagToSet(p.writes)
      ]_vars

\* C15: a del on an initialized Expirer raises no error; when the topic is
\* in the index it removes the entry and emits exactly one deleted event and
\* no expired event; when the topic is absent it changes nothing and emits
\* nothing; every other entry is left unchanged. (The topic is in the index
\* when it is there both when del is called and when it resumes, absent when
\* it is there at neither moment.)
C15_DelRemovesOne ==
    [][(ExpirerRunning("del", "del") /\ emq' = Tail(emq) /\ ereturned' # << >>) =>
        LET c == Head(emq)
            topic == c.args.topic
        IN  /\ ereturned'[1].result = Void
            /\ (c.exists /\ ExpHas(expirations, topic)) =>
                  /\ expirations' = ExpDelete(expirations, topic)
                  /\ eemitted' = <<[name |-> "deleted", topic |-> topic,
                                    expiration |-> ExpGet(expirations, topic)]>>
            /\ (~c.exists /\ ~ExpHas(expirations, topic)) =>
                  /\ expirations' = expirations
                  /\ eemitted' = << >>
                  /\ expirerWrites' = expirerWrites
            /\ \A k \in 1..Len(expirations) :
                  expirations[k].key # topic =>
                      /\ ExpHas(expirations', expirations[k].key)
                      /\ ExpGet(expirations', expirations[k].key) = expirations[k].value
      ]_vars

(***************************************************************************)
(* Persistence and the init gate                                           *)
(***************************************************************************)
\* The index of a new JsonRpcHistory after init against a durable store that
\* holds the persisted records recs: persist writes this.values, restore
\* stages what it reads and reset sets every staged record under its id.
HistoryReopened(recs) == reset(<< >>, Parsed(Snapshot(recs), 0))

\* The index of a new Expirer after init against a durable store that holds
\* the persisted index exps: persist writes this.values, init sets every
\* staged expiration under its topic field.
ExpirerReopened(exps) == ExpirerMerge(<< >>, ExpValues(exps))

\* C16: an index that is persisted and restored by init into an empty index
\* comes back with the same keys and the same contents, for JsonRpcHistory
\* and for Expirer.
C16_RoundTrip ==
    /\ Range(Snapshot(HistoryReopened(records))) = Range(Snapshot(records))
    /\ {r.id : r \in Range(HistoryReopened(records))} = {r.id : r \in Range(records)}
    /\ Range(ExpirerReopened(expirations)) = Range(expirations)

\* The step runs the code of set, resolve, get, delete or exists that follows
\* an await this.isInitialized(): it reads or mutates the index.
TouchesIndex ==
    /\ mq # << >>
    /\ Head(mq).kind # "init"
    /\ Head(mq).hops = 0
    /\ Head(mq).pc \in {"body", "getRecord"}
    /\ mq' # mq
    /\ nops' = nops
    /\ reads' = reads
    /\ BagCardinality(writes') >= BagCardinality(writes)

\* C17: no operation reads or mutates the index before the readiness signal
\* (the init event) has fired.
C17_InitGate ==
    [][TouchesIndex => inits >= 1]_vars

\* C18: the init event is emitted at most once.
C18_InitOnce ==
    inits <= 1

\* The step runs the continuation of init at pc (it is no call, and neither
\* a storage read nor a storage write completes in it).
HistoryInitStep(pc) ==
    /\ Running("init", pc)
    /\ mq' # mq
    /\ nops' = nops
    /\ reads' = reads
    /\ BagCardinality(writes') >= BagCardinality(writes)

ExpirerInitStep(pc) ==
    /\ ExpirerRunning("init", pc)
    /\ emq' # emq
    /\ eops' = eops
    /\ expirerReads' = expirerReads
    /\ BagCardinality(expirerWrites') >= BagCardinality(expirerWrites)

\* The storage read failed, or found data while the index holds entries.
RestoreFails(c, index) == c.failed \/ (Len(c.persisted) > 0 /\ Len(index) > 0)

\* C19: a restore whose storage read failed, or that found persisted data
\* while the index is non-empty, stages nothing, leaves the index as it is
\* and does not raise: init carries on, merges only what is staged (nothing,
\* unless another init staged it), returns without error and the component
\* becomes ready. For JsonRpcHistory and for Expirer.
C19_RestoreContained ==
    [][/\ (HistoryInitStep("restore") /\ RestoreFails(Head(mq), records)) =>
            /\ cached' = cached
            /\ records' = records
            /\ returned' = << >>
            /\ mq'[Len(mq')] = [Head(mq) EXCEPT !.pc = "initialize"]
       /\ HistoryInitStep("initialize") =>
            /\ emitted' = <<[name |-> "init"]>>
            /\ cached = << >> => records' = records
            /\ mq'[Len(mq')] = [Head(mq) EXCEPT !.pc = "init"]
       /\ HistoryInitStep("init") =>
            /\ returned'[1].result = Void
            /\ records' = records
       /\ (ExpirerInitStep("restore") /\ RestoreFails(Head(emq), expirations)) =>
            /\ expirerCached' = expirerCached
            /\ expirations' = expirations
            /\ ereturned' = << >>
            /\ emq'[Len(emq')] = [Head(emq) EXCEPT !.pc = "init"]
       /\ ExpirerInitStep("init") =>
            /\ ereturned'[1].result = Void
            /\ initialized'
            /\ expirerCached = << >> => expirations' = expirations
      ]_vars

\* An init has returned after its restore was refused: the index holds a
\* record, the durable store holds another one, and none was merged.
C19_Witness ==
    /\ returned # << >>
    /\ returned[1].kind = "init"
    /\ returned[1].result = Void
    /\ inits = 1
    /\ Len(records) > 0
    /\ Len(store) > 0
    /\ \A k \in 1..Len(records), j \in 1..Len(store) : records[k].id # store[j].id

\* C20: when the last persistence write in flight has landed, the durable
\* store holds the current index, in whatever order the writes triggered by
\* different events complete. For JsonRpcHistory and for Expirer.
C20_StoreFollowsIndex ==
    /\ (emitted = <<[name |-> "sync"]>> /\ writes = EmptyBag) =>
            store = Snapshot(records)
    /\ (eemitted = <<[name |-> "sync"]>> /\ expirerWrites = EmptyBag) =>
            expirerStore = ExpValues(expirations)

\* C21: no persisted record is lost at startup. When an init whose storage
\* read did not fail completes, every record it found in the durable store is
\* in the index, whatever set calls were made before or during the init
\* (the steps of StartupSpec delete nothing, so a record found in the store
\* is one that was there at the start or one a set has put in the index).
C21_NoLossAtStartup ==
    [][(HistoryInitStep("initialize") /\ ~Head(mq).failed) =>
            Range(Head(mq).persisted) \subseteq Range(Snapshot(records'))
      ]_vars

\* C22: a heartbeat resubmission sends the transport the request parameters
\* (topic, message, ttl and prompt flag) that the publish call which queued
\* the entry sent: every resubmission in flight carries the params of the
\* request of a publish call for the same entry.
C22_RetrySameRequest ==
    \A r \in BagToSet(retries) :
        \E i \in DOMAIN calls :
            /\ calls[i].hash = r.hash
            /\ calls[i].status # "set"
            /\ calls[i].request.params = r.request.params

\* C23: while no init of the Expirer has completed, a set, a get or a del
\* fails at once with NOT_INITIALIZED: nothing is suspended, and the index,
\* the durable store, the writes in flight and the emitted events are as
\* before; a heartbeat pulse sweeps nothing and changes none of them either.
C23_NotInitialized ==
    [][(/\ ~initialized
        /\ ereturned' # << >>
        /\ ereturned'[1].kind \in {"set", "get", "del", "pulse"}) =>
            /\ ereturned'[1].kind # "pulse" =>
                    /\ ereturned'[1].result = Threw("NOT_INITIALIZED")
                    /\ eops' = eops + 1
            /\ emq' = emq
            /\ expirations' = expirations
            /\ expirerStore' = expirerStore
            /\ expirerWrites' = expirerWrites
            /\ eemitted' = << >>
            /\ ~initialized'
      ]_vars

\* A set was refused while an init was awaiting its storage read, with
\* expirations in the durable store.
C23_Witness ==
    /\ ~initialized
    /\ expirerReads # {}
    /\ Len(expirerStore) > 0
    /\ ereturned # << >>
    /\ ereturned[1].kind = "set"
    /\ ereturned[1].result = Threw("NOT_INITIALIZED")
    /\ expirations = << >>

\* C24: init is idempotent under any sequence or overlap of calls: the
\* heartbeat and persistence listeners are registered at most once, so a
\* step that emits created, expired or deleted events starts one persistence
\* write per event.
C24_InitIdempotent ==
    [][/\ listeners' <= 1
       /\ (eemitted' # << >> /\ eemitted'[1].name # "sync") =>
              BagCardinality(expirerWrites') =
                  BagCardinality(expirerWrites) + Len(eemitted')
      ]_vars

=============================================================================
